---- MODULE Spec2Model ----
(***************************************************************************)
(* Pleading-Markdown-Converter: the text-extraction pipeline               *)
(* (src/utils/fileProcessing.ts) and the LLM client                        *)
(* (src/utils/llmProviders.ts) as a state machine.                         *)
(*                                                                         *)
(* JavaScript strings appear in two representations.  Document text,       *)
(* prompts and LLM content are sequences of one-character strings, so      *)
(* that String.prototype.trim is computed character by character.  Error   *)
(* messages, identifiers, MIME types and URLs are TLA+ strings, joined     *)
(* with \o where the code interpolates.  A file name is the sequence of    *)
(* its dot-separated segments: the name "a.TXT" is <<"a", "TXT">>, which   *)
(* is exactly what name.split('.') returns.                                *)
(***************************************************************************)
EXTENDS Integers, Sequences, FiniteSets, TLC

(* ------------------------------ bounds -------------------------------- *)
MaxNameParts == 2
MaxTextLen == 2
MaxElapsed == 1

(* --------------------------- JavaScript values ------------------------ *)
Undef == [t |-> "undef"]
JNull == [t |-> "null"]
JStr(s) == [t |-> "str", s |-> s]
JTxt(c) == [t |-> "txt", c |-> c]
JNum(n) == [t |-> "num", n |-> n]
JObj(f) == [t |-> "obj", f |-> f]
JArr(e) == [t |-> "arr", e |-> e]

IsNullish(v) == v.t \in {"undef", "null"}

Truthy(v) ==
  CASE v.t = "undef" -> FALSE
    [] v.t = "null" -> FALSE
    [] v.t = "str" -> v.s # ""
    [] v.t = "txt" -> v.c # <<>>
    [] v.t = "num" -> v.n # 0
    [] OTHER -> TRUE

(* An Error object with a message, or a thrown value that is no Error. *)
JsError(m) == [isError |-> TRUE, message |-> m]
NonError == [isError |-> FALSE, message |-> ""]
TypeErrorMsg == "Cannot read properties of undefined"
SyntaxErrorMsg == "Unexpected token in JSON"

Return(v) == [kind |-> "return", value |-> v]
Throw(e) == [kind |-> "throw", err |-> e]

(* v.key : a TypeError on null and undefined, undefined where absent. *)
GetProp(v, key) ==
  IF IsNullish(v) THEN Throw(JsError(TypeErrorMsg))
  ELSE IF v.t = "obj" /\ key \in DOMAIN v.f THEN Return(v.f[key])
  ELSE Return(Undef)

(* v[i] with a 0-based index. *)
GetIndex(v, i) ==
  IF IsNullish(v) THEN Throw(JsError(TypeErrorMsg))
  ELSE IF v.t = "arr" /\ i + 1 \in DOMAIN v.e THEN Return(v.e[i + 1])
  ELSE Return(Undef)

(* v?.key *)
GetOptProp(v, key) == IF IsNullish(v) THEN Return(Undef) ELSE GetProp(v, key)

(* ------------------------------- text --------------------------------- *)
Chars == {"a", " "}
WhiteSpace == {" ", "\n"}

RECURSIVE TrimStart(_)
TrimStart(s) ==
  IF s = <<>> THEN s
  ELSE IF Head(s) \in WhiteSpace THEN TrimStart(Tail(s)) ELSE s

RECURSIVE TrimEnd(_)
TrimEnd(s) ==
  IF s = <<>> THEN s
  ELSE IF s[Len(s)] \in WhiteSpace THEN TrimEnd(SubSeq(s, 1, Len(s) - 1)) ELSE s

Trim(s) == TrimEnd(TrimStart(s))

SeqsUpTo(S, n) == UNION {[1..k -> S] : k \in 0..n}

Texts == SeqsUpTo(Chars, MaxTextLen)

(* ------------------------------ files --------------------------------- *)
Segments == {"txt", "TXT", "docx", "pdf", "xyz"}

ToLowerCase(seg) == IF seg = "TXT" THEN "txt" ELSE seg

NameToLowerCase(name) == [i \in DOMAIN name |-> ToLowerCase(name[i])]

FileNames == UNION {[1..k -> Segments] : k \in 1..MaxNameParts}

MimeTxt == "text/plain"
MimeDocx == "application/vnd.openxmlformats-officedocument.wordprocessingml.document"
MimePdf == "application/pdf"
MimeTypes == {MimeTxt, MimeDocx, MimePdf, "application/unknown"}

DefaultMaxFileSize == 10 * 1024 * 1024
FileSizes == {1536, DefaultMaxFileSize, DefaultMaxFileSize + 1}

Files == [name : FileNames, type : MimeTypes, size : FileSizes]

(* fileName.endsWith('.' + ext) for a dot-free ext, on the split name. *)
EndsWith(name, ext) == Len(name) >= 2 /\ name[Len(name)] = ext

(* ----------------------------- formatFileSize ------------------------- *)
RECURSIVE Pow(_, _)
Pow(b, e) == IF e = 0 THEN 1 ELSE b * Pow(b, e - 1)

(* Math.round in the place of Math.floor *)
RECURSIVE FloorLog_Round(_, _)
FloorLog_Round(bytes, k) == IF bytes < 32 THEN 0 ELSE 1 + FloorLog_Round(bytes \div k, k)

(* floor(log(bytes) / log(1024)) for bytes >= 1 *)
RECURSIVE FloorLog(_, _)
FloorLog(bytes, k) == IF bytes < k THEN 0 ELSE 1 + FloorLog(bytes \div k, k)

SizeUnits == <<"Bytes", "KB", "MB", "GB">>

(* parseFloat(x.toFixed(2)) printed, from the value in hundredths. *)
FixedToString(h) ==
  LET whole == h \div 100
      frac == h % 100
  IN  IF frac = 0 THEN ToString(whole)
      ELSE IF frac % 10 = 0 THEN ToString(whole) \o "." \o ToString(frac \div 10)
      ELSE IF frac < 10 THEN ToString(whole) \o ".0" \o ToString(frac)
      ELSE ToString(whole) \o "." \o ToString(frac)

(* (m / p).toFixed(2) in hundredths, ties upwards, for p a power of 1024 *)
(* with p <= m < 1024 * p; the division is staged to stay within 32 bits.*)
Hundredths(m, p) ==
  IF p = 1 THEN 100 * m
  ELSE LET p1 == p \div 1024
           a == (m % p) \div p1
           b == (m % p) % p1
           twice == (a * 200 + (b * 200) \div p1) \div 1024
       IN  (m \div p) * 100 + (twice + 1) \div 2

RECURSIVE Join(_)
Join(parts) == IF parts = <<>> THEN "" ELSE Head(parts) \o Join(Tail(parts))

(* formatFileSize of the byte count m * 1024^e, as the pieces the code   *)
(* concatenates. The counts past the 32-bit range are written with       *)
(* e > 0: they have the same mantissa and e more units.                  *)
formatFileSizeParts(m, e) ==
  IF m = 0 THEN <<"0 Bytes">>
  ELSE IF m < 0 THEN <<"Invalid size">>
  ELSE LET k == 1024
           j == FloorLog(m, k)
           i == j + e
           unit == IF i + 1 \in DOMAIN SizeUnits THEN SizeUnits[i + 1] ELSE "undefined"
       IN  <<FixedToString(Hundredths(m, Pow(k, j))), " ", unit>>

formatFileSize(bytes) == Join(formatFileSizeParts(bytes, 0))

(* The byte counts formatFileSize is called with: m * 1024^e. *)
KiB == 1024
MiB == 1024 * 1024
GiB == 1024 * 1024 * 1024
SizeStride == 1023
KBSamples == {KiB + SizeStride * n : n \in 0..1023} \cup {MiB - 1}
ByteCounts ==
  {[m |-> n, e |-> 0] :
     n \in {0 - MiB, 0 - 1, 0, 1, 512, KiB - 1, 1536, MiB, MiB + MiB \div 2, DefaultMaxFileSize,
            GiB - 1, GiB, GiB + (GiB - 1)} \cup KBSamples}
  \cup {[m |-> 1, e |-> 4], [m |-> 1536, e |-> 3], [m |-> KiB - 1, e |-> 4]}

(* ------------------------------ validateFile -------------------------- *)
SupportedTypes == {MimeTxt, MimeDocx, MimePdf}
SupportedExtensions == {".txt", ".docx", ".pdf"}

(* '.' + file.name.split('.').pop()?.toLowerCase() *)
fileExtension(f) == "." \o ToLowerCase(f.name[Len(f.name)])

isValidType(f) == f.type \in SupportedTypes
isValidExtension(f) == fileExtension(f) \in SupportedExtensions

(* validateFile with the two checks in the opposite order *)
validateFile_TypeFirst(f) ==
  IF ~isValidType(f) /\ ~isValidExtension(f)
    THEN Throw(JsError("Please upload a TXT, DOCX, or PDF file"))
  ELSE IF DefaultMaxFileSize # 0 /\ f.size > DefaultMaxFileSize
    THEN Throw(JsError("File size must be less than " \o formatFileSize(DefaultMaxFileSize)))
  ELSE Return(Undef)

validateFile(f) ==
  IF DefaultMaxFileSize # 0 /\ f.size > DefaultMaxFileSize
    THEN Throw(JsError("File size must be less than " \o formatFileSize(DefaultMaxFileSize)))
  ELSE IF ~isValidType(f) /\ ~isValidExtension(f)
    THEN Throw(JsError("Please upload a TXT, DOCX, or PDF file"))
  ELSE Return(Undef)

(* --------------------------- provider registry ------------------------ *)
LLM_PROVIDERS ==
  << [id |-> "local", name |-> "Local/Custom API",
      baseUrl |-> "http://localhost:11434/v1", requiresApiKey |-> FALSE],
     [id |-> "openai", name |-> "OpenAI",
      baseUrl |-> "https://api.openai.com/v1", requiresApiKey |-> TRUE],
     [id |-> "anthropic", name |-> "Anthropic Claude",
      baseUrl |-> "https://api.anthropic.com/v1", requiresApiKey |-> TRUE],
     [id |-> "groq", name |-> "Groq",
      baseUrl |-> "https://api.groq.com/openai/v1", requiresApiKey |-> TRUE] >>

ProviderIds == {LLM_PROVIDERS[i].id : i \in DOMAIN LLM_PROVIDERS}

(* LLM_PROVIDERS.find(p => p.id === id): the first match; callers test *)
(* id \in ProviderIds for the undefined result.                        *)
FindProvider(id) ==
  LLM_PROVIDERS[CHOOSE i \in DOMAIN LLM_PROVIDERS :
                  /\ LLM_PROVIDERS[i].id = id
                  /\ \A j \in 1..(i - 1) : LLM_PROVIDERS[j].id # id]

(* ------------------------------ settings ------------------------------ *)
NoSettings == [present |-> FALSE]

SettingsProviders == ProviderIds \cup {"bogus"}
ApiKeys == {"", "sk-key"}
CustomBaseUrls == {"", "http://host:1234/v1"}
CustomModels == {"", "llama2"}
CustomPrompts == {<<>>, <<" ">>, <<" ", "a">>}

AllSettings ==
  [present : {TRUE}, provider : SettingsProviders, model : {"gpt-4o"},
   apiKey : ApiKeys, customBaseUrl : CustomBaseUrls,
   customModel : CustomModels, customPrompt : CustomPrompts,
   useExamples : BOOLEAN]

(* processText never reads the custom prompt or the examples flag. *)
ProcessSettings == {s \in AllSettings : s.customPrompt = <<>> /\ ~s.useExamples}

(* The settings values handed to extractText, and no settings at all. *)
ExtractSettings ==
  {s \in ProcessSettings : s.customModel = "" /\ s.customBaseUrl = ""} \cup {NoSettings}

(* ------------------------------ examples ------------------------------ *)
MaxExamples == 2

Examples ==
  { [id |-> "1", pleadingType |-> "claim", originalText |-> <<"a">>,
     convertedMarkdown |-> <<"#", "a">>],
    [id |-> "2", pleadingType |-> "defence", originalText |-> <<"b">>,
     convertedMarkdown |-> <<"#", "b">>] }

ExampleLists == SeqsUpTo(Examples, MaxExamples)

(* ------------------------------ buildPrompt --------------------------- *)
DefaultTemplate ==
  << "You are an expert legal document processor specializing in Singapore civil litigation.",
     "CRITICAL REQUIREMENTS:", "FORMATTING GUIDELINES:", "\n", "\n" >>

NowConvert(text) ==
  <<"\n", "\n", "Now convert this legal pleading:", "\n", "\n">> \o text
    \o <<"\n", "\n", "Provide only the clean markdown conversion:">>

(* the examples block enumerating the list from its last element        *)
RECURSIVE ExamplesBlock_Reversed(_, _)
ExamplesBlock_Reversed(examples, index) ==
  IF index > Len(examples) THEN <<>>
  ELSE LET example == examples[Len(examples) + 1 - index]
       IN  << "Example " \o ToString(index) \o " (" \o example.pleadingType \o "):", "\n",
              "Original:", "\n" >> \o example.originalText \o <<"\n", "\n">>
           \o <<"Converted:", "\n">> \o example.convertedMarkdown \o <<"\n", "\n">>
           \o ExamplesBlock_Reversed(examples, index + 1)

RECURSIVE ExamplesBlock(_, _)
ExamplesBlock(examples, index) ==
  IF index > Len(examples) THEN <<>>
  ELSE LET example == examples[index]
       IN  << "Example " \o ToString(index) \o " (" \o example.pleadingType \o "):", "\n",
              "Original:", "\n" >> \o example.originalText \o <<"\n", "\n">>
           \o <<"Converted:", "\n">> \o example.convertedMarkdown \o <<"\n", "\n">>
           \o ExamplesBlock(examples, index + 1)

(* buildPrompt leaving the examples out of the default prompt            *)
buildPrompt_NoExamples(text, examples, customPrompt) ==
  IF customPrompt # <<>> /\ Trim(customPrompt) # <<>>
    THEN Trim(customPrompt) \o NowConvert(text)
    ELSE DefaultTemplate \o Tail(NowConvert(text))

(* buildPrompt putting the custom instruction on top of the default     *)
(* prompt instead of replacing it                                        *)
buildPrompt_CustomOnTop(text, examples, customPrompt) ==
  (IF customPrompt # <<>> /\ Trim(customPrompt) # <<>> THEN Trim(customPrompt) ELSE <<>>)
    \o DefaultTemplate
    \o (IF Len(examples) > 0
          THEN <<"\n", "Here are examples of good conversions:", "\n", "\n">>
               \o ExamplesBlock(examples, 1)
          ELSE <<>>)
    \o Tail(NowConvert(text))

buildPrompt(text, examples, customPrompt) ==
  IF customPrompt # <<>> /\ Trim(customPrompt) # <<>>
    THEN Trim(customPrompt) \o NowConvert(text)
    ELSE DefaultTemplate
         \o (IF Len(examples) > 0
               THEN <<"\n", "Here are examples of good conversions:", "\n", "\n">>
                    \o ExamplesBlock(examples, 1)
               ELSE <<>>)
         \o Tail(NowConvert(text))

(* ------------------------------ HTTP ---------------------------------- *)
(* A response body: what response.json() parses to, or a syntax error,   *)
(* and what response.text() reads.                                        *)
JsonBody(v) == [parses |-> TRUE, value |-> v, text |-> "{json}"]
NotJsonBody == [parses |-> FALSE, value |-> Undef, text |-> "Bad Gateway"]

OpenAIData(content, usage) ==
  JObj([choices |-> JArr(<<JObj([message |-> JObj([content |-> content])])>>),
        usage |-> usage])

Bodies ==
  {NotJsonBody} \cup
  {JsonBody(v) : v \in
     { JNull, JObj(<<>>),
       JObj([error |-> JObj([message |-> JStr("API key invalid")])]),
       JObj([error |-> JObj([message |-> JStr("")])]),
       JObj([error |-> JStr("denied")]),
       JObj([choices |-> JArr(<<>>)]),
       JObj([choices |-> JArr(<<JObj(<<>>)>>)]),
       JObj([choices |-> JArr(<<JObj([message |-> JObj(<<>>)])>>)]),
       OpenAIData(JNull, Undef),
       OpenAIData(JNum(5), JObj([total_tokens |-> JNum(7)])),
       OpenAIData(JTxt(<<"a">>), JObj(<<>>)),
       JObj([content |-> JArr(<<JObj([text |-> JTxt(<<"a">>)])>>),
             usage |-> JObj([input_tokens |-> JNum(100), output_tokens |-> JNum(50)])]),
       JObj([content |-> JArr(<<JObj([text |-> JTxt(<<"a">>)])>>)]),
       JObj([content |-> JArr(<<JObj(<<>>)>>)]) }
     \cup {OpenAIData(JTxt(c), JObj([total_tokens |-> JNum(150)])) : c \in Texts}}

Responses ==
  {[ok |-> TRUE, status |-> 200, statusText |-> "OK", body |-> b] : b \in Bodies}
  \cup {[ok |-> FALSE, status |-> 401, statusText |-> "Unauthorized", body |-> b] : b \in Bodies}

FetchRejections == {JsError("Network error"), JsError(""), NonError}

FetchOutcomes ==
  {[kind |-> "response", response |-> r] : r \in Responses}
  \cup {[kind |-> "reject", err |-> e] : e \in FetchRejections}

Fetch(callee, req) == [kind |-> "fetch", callee |-> callee, request |-> req]

(* await response.json() *)
ResponseJson(response) ==
  IF response.body.parses THEN Return(response.body.value)
  ELSE Throw(JsError(SyntaxErrorMsg))

(* String(v) as new Error(v) applies it to a truthy message *)
ToJsString(v) == IF v.t = "str" THEN v.s ELSE IF v.t = "num" THEN ToString(v.n) ELSE "[object]"

(* throw new Error(error.error?.message || generic), after response.json() *)
ApiError(response, generic) ==
  LET error == ResponseJson(response)
  IN  IF error.kind = "throw" THEN error
      ELSE LET inner == GetProp(error.value, "error")
           IN  IF inner.kind = "throw" THEN inner
               ELSE LET message == GetOptProp(inner.value, "message").value
                    IN  Throw(JsError(IF Truthy(message) THEN ToJsString(message) ELSE generic))

(* v ?? 0 *)
OrZero(v) == IF IsNullish(v) THEN JNum(0) ELSE v

(* --------------------------- provider calls --------------------------- *)
(* Each call* method runs up to its fetch (...Start: a throw or the request *)
(* issued) and resumes when the fetch has produced a response (...Resume:   *)
(* a throw or the {content, tokensUsed} object returned).                 *)
ChatBody(model, prompt) == [model |-> model, messages |-> <<[role |-> "user", content |-> prompt]>>]

BearerHeaders(apiKey) ==
  [contentType |-> "application/json", authorization |-> "Bearer " \o apiKey]

(* callOpenAI honouring the custom base URL and model *)
callOpenAIStart_CustomFields(prompt, settings, provider) ==
  IF settings.apiKey = "" THEN Throw(JsError("OpenAI API key is required"))
  ELSE Fetch("callOpenAI",
             [url |-> (IF settings.customBaseUrl # "" THEN settings.customBaseUrl
                       ELSE provider.baseUrl) \o "/chat/completions",
              headers |-> BearerHeaders(settings.apiKey),
              body |-> ChatBody(IF settings.customModel # "" THEN settings.customModel
                                ELSE settings.model, prompt)])

callOpenAIStart(prompt, settings, provider) ==
  IF settings.apiKey = "" THEN Throw(JsError("OpenAI API key is required"))
  ELSE Fetch("callOpenAI",
             [url |-> provider.baseUrl \o "/chat/completions",
              headers |-> BearerHeaders(settings.apiKey),
              body |-> ChatBody(settings.model, prompt)])

callAnthropicStart(prompt, settings, provider) ==
  IF settings.apiKey = "" THEN Throw(JsError("Anthropic API key is required"))
  ELSE Fetch("callAnthropic",
             [url |-> provider.baseUrl \o "/messages",
              headers |-> [contentType |-> "application/json",
                           xApiKey |-> settings.apiKey,
                           anthropicVersion |-> "2023-06-01"],
              body |-> ChatBody(settings.model, prompt)])

(* callGroq going to the network without looking at the key *)
callGroqStart_NoKeyCheck(prompt, settings, provider) ==
  Fetch("callGroq",
        [url |-> provider.baseUrl \o "/chat/completions",
         headers |-> BearerHeaders(settings.apiKey),
         body |-> ChatBody(settings.model, prompt)])

callGroqStart(prompt, settings, provider) ==
  IF settings.apiKey = "" THEN Throw(JsError("Groq API key is required"))
  ELSE Fetch("callGroq",
             [url |-> provider.baseUrl \o "/chat/completions",
              headers |-> BearerHeaders(settings.apiKey),
              body |-> ChatBody(settings.model, prompt)])

(* callCustomAPI sending the key like the other OpenAI-compatible calls *)
callCustomAPIStart_WithKey(prompt, settings, provider) ==
  LET baseUrl == IF settings.customBaseUrl # "" THEN settings.customBaseUrl ELSE provider.baseUrl
      model == IF settings.customModel # "" THEN settings.customModel ELSE "custom"
  IN  IF baseUrl = "" THEN Throw(JsError("Custom base URL is required for local LLM"))
      ELSE Fetch("callCustomAPI",
                 [url |-> baseUrl \o "/chat/completions",
                  headers |-> IF settings.apiKey # "" THEN BearerHeaders(settings.apiKey)
                              ELSE [contentType |-> "application/json"],
                  body |-> ChatBody(model, prompt)])

callCustomAPIStart(prompt, settings, provider) ==
  LET baseUrl == IF settings.customBaseUrl # "" THEN settings.customBaseUrl ELSE provider.baseUrl
      model == IF settings.customModel # "" THEN settings.customModel ELSE "custom"
  IN  IF baseUrl = "" THEN Throw(JsError("Custom base URL is required for local LLM"))
      ELSE Fetch("callCustomAPI",
                 [url |-> baseUrl \o "/chat/completions",
                  headers |-> [contentType |-> "application/json"],
                  body |-> ChatBody(model, prompt)])

(* the response normalisation without the token count *)
ChatCompletion_NoUsage(response) ==
  LET data == ResponseJson(response)
  IN  IF data.kind = "throw" THEN data
      ELSE LET choices == GetProp(data.value, "choices")
               first == IF choices.kind = "throw" THEN choices ELSE GetIndex(choices.value, 0)
               message == IF first.kind = "throw" THEN first ELSE GetProp(first.value, "message")
               content == IF message.kind = "throw" THEN message ELSE GetProp(message.value, "content")
           IN  IF content.kind = "throw" THEN content
               ELSE Return([content |-> content.value, tokensUsed |-> JNum(0)])

(* data.choices[0].message.content and data.usage?.total_tokens ?? 0 *)
ChatCompletion(response) ==
  LET data == ResponseJson(response)
  IN  IF data.kind = "throw" THEN data
      ELSE LET choices == GetProp(data.value, "choices")
               first == IF choices.kind = "throw" THEN choices ELSE GetIndex(choices.value, 0)
               message == IF first.kind = "throw" THEN first ELSE GetProp(first.value, "message")
               content == IF message.kind = "throw" THEN message ELSE GetProp(message.value, "content")
               usage == GetProp(data.value, "usage").value
           IN  IF content.kind = "throw" THEN content
               ELSE Return([content |-> content.value,
                            tokensUsed |-> OrZero(GetOptProp(usage, "total_tokens").value)])

callOpenAIResume(response) ==
  IF ~response.ok THEN ApiError(response, "OpenAI API request failed")
  ELSE ChatCompletion(response)

callGroqResume(response) ==
  IF ~response.ok THEN ApiError(response, "Groq API request failed")
  ELSE ChatCompletion(response)

callAnthropicResume(response) ==
  IF ~response.ok THEN ApiError(response, "Anthropic API request failed")
  ELSE LET data == ResponseJson(response)
       IN  IF data.kind = "throw" THEN data
           ELSE LET content == GetProp(data.value, "content")
                    first == IF content.kind = "throw" THEN content ELSE GetIndex(content.value, 0)
                    text == IF first.kind = "throw" THEN first ELSE GetProp(first.value, "text")
                    usage == GetProp(data.value, "usage").value
                    input == OrZero(GetOptProp(usage, "input_tokens").value)
                    output == OrZero(GetOptProp(usage, "output_tokens").value)
                IN  IF text.kind = "throw" THEN text
                    ELSE Return([content |-> text.value,
                                 tokensUsed |-> JNum(input.n + output.n)])

callCustomAPIResume(response) ==
  IF ~response.ok
    THEN Throw(JsError("Local API request failed: " \o ToString(response.status) \o " "
                       \o response.statusText \o ". " \o response.body.text))
  ELSE ChatCompletion(response)

(* The provider lookup and the if/else chain shared by convertToMarkdown *)
(* and processText, up to the fetch.                                      *)
DispatchStart(prompt, settings) ==
  IF settings.provider \notin ProviderIds
    THEN Throw(JsError("Invalid LLM provider: " \o settings.provider))
  ELSE LET provider == FindProvider(settings.provider)
       IN  IF settings.provider = "openai" THEN callOpenAIStart(prompt, settings, provider)
           ELSE IF settings.provider = "anthropic" THEN callAnthropicStart(prompt, settings, provider)
           ELSE IF settings.provider = "groq" THEN callGroqStart(prompt, settings, provider)
           ELSE callCustomAPIStart(prompt, settings, provider)

(* The awaited call* method once its fetch has settled. *)
DispatchResume(callee, outcome) ==
  IF outcome.kind = "reject" THEN Throw(outcome.err)
  ELSE IF callee = "callOpenAI" THEN callOpenAIResume(outcome.response)
  ELSE IF callee = "callAnthropic" THEN callAnthropicResume(outcome.response)
  ELSE IF callee = "callGroq" THEN callGroqResume(outcome.response)
  ELSE callCustomAPIResume(outcome.response)

(* ------------------------------ results ------------------------------- *)
BlankInputResult(op) ==
  [success |-> FALSE,
   error |-> IF op = "convertToMarkdown" THEN "No text content provided for conversion"
             ELSE "No prompt provided for text processing",
   processingTime |-> 0]

(* the catch block of convertToMarkdown and of processText *)
FailureResult(err, elapsed) ==
  [success |-> FALSE,
   error |-> IF err.isError THEN err.message ELSE "Unknown error occurred",
   processingTime |-> elapsed]

ConvertSuccess(response, elapsed) ==
  [success |-> TRUE, markdown |-> response.content,
   tokensUsed |-> response.tokensUsed, processingTime |-> elapsed]

ProcessSuccess(response, elapsed) ==
  [success |-> TRUE, content |-> response.content,
   tokensUsed |-> response.tokensUsed, processingTime |-> elapsed]

(* What the try block makes of a settled dispatch. *)
LLMResult(op, settled, elapsed) ==
  IF settled.kind = "throw" THEN FailureResult(settled.err, elapsed)
  ELSE IF op = "convertToMarkdown" THEN ConvertSuccess(settled.value, elapsed)
  ELSE ProcessSuccess(settled.value, elapsed)

(* the blank test without the trim *)
IsBlank_NoTrim(text) == text = <<>>

(* !text || text.trim().length === 0 *)
IsBlank(text) == text = <<>> \/ Len(Trim(text)) = 0

(* ------------------------------ extractors ---------------------------- *)
(* What the FileReader and the parsing libraries can produce. *)
TxtOutcomes ==
  {[kind |-> "load", text |-> t] : t \in Texts} \cup {[kind |-> "error"]}

DocxOutcomes ==
  {[kind |-> "load", text |-> t] : t \in Texts}
  \cup {[kind |-> "parseError"], [kind |-> "error"]}

extractTextFromTxt(o) ==
  IF o.kind = "load" THEN Return(o.text)
  ELSE Throw(JsError("Failed to read text file"))

extractTextFromDocx(o) ==
  IF o.kind = "load" THEN Return(o.text)
  ELSE IF o.kind = "parseError" THEN Throw(JsError("Failed to extract text from DOCX file"))
  ELSE Throw(JsError("Failed to read DOCX file"))

MaxPages == 2
MaxItems == 2

(* The str of a text item: a string, or absent. *)
ItemStrs == {JTxt(<<"a">>), JTxt(<<" ">>), Undef}
PageItems == SeqsUpTo(ItemStrs, MaxItems)
PdfPages == {Return(items) : items \in PageItems} \cup {Throw(JsError("Invalid page request"))}

PdfOutcomes ==
  {[kind |-> "doc", pages |-> ps] : ps \in SeqsUpTo(PdfPages, MaxPages)}
  \cup {[kind |-> "loadError", err |-> e] : e \in {JsError("Invalid PDF structure"), NonError}}
  \cup {[kind |-> "noBuffer"], [kind |-> "error"]}

(* items.filter(str is a non-empty string).map(trim).filter(non-empty).join(' ') *)
RECURSIVE PageText(_)
PageText(items) ==
  IF items = <<>> THEN <<>>
  ELSE LET item == Head(items)
           rest == PageText(Tail(items))
           str == IF item.t = "txt" /\ Truthy(item) THEN Trim(item.c) ELSE <<>>
       IN  IF Len(str) = 0 THEN rest
           ELSE IF rest = <<>> THEN str
           ELSE str \o <<" ">> \o rest

(* the page loop from pageNum on, fullText so far *)
RECURSIVE PdfLoop(_, _, _)
PdfLoop(pages, pageNum, fullText) ==
  IF pageNum > Len(pages) THEN Return(fullText)
  ELSE IF pages[pageNum].kind = "throw" THEN pages[pageNum]
  ELSE LET pageText == PageText(pages[pageNum].value)
       IN  PdfLoop(pages, pageNum + 1,
                   IF pageText # <<>> THEN fullText \o pageText \o <<"\n", "\n">>
                   ELSE fullText)

PdfWrap(err) ==
  Throw(JsError("Failed to extract text from PDF: "
                \o (IF err.isError THEN err.message ELSE "Unknown error")
                \o ". Please ensure the PDF contains selectable text."))

NoReadableText ==
  "No readable text found in PDF. The PDF may not contain selectable text or may be image-based. Please ensure the PDF is OCRed and contains selectable text."

(* the rejections that come out of the catch block of the onload handler *)
PdfWrapped(o) == o.kind # "error"

extractTextFromPdf(o) ==
  IF o.kind = "error" THEN Throw(JsError("Failed to read PDF file"))
  ELSE IF o.kind = "noBuffer" THEN PdfWrap(JsError("Failed to read file content"))
  ELSE IF o.kind = "loadError" THEN PdfWrap(o.err)
  ELSE LET loop == PdfLoop(o.pages, 1, <<>>)
       IN  IF loop.kind = "throw" THEN PdfWrap(loop.err)
           ELSE IF Trim(loop.value) = <<>> THEN PdfWrap(JsError(NoReadableText))
           ELSE Return(Trim(loop.value))

(* ------------------------------ cleaning ------------------------------ *)
CleaningPrompt(rawText) ==
  <<"You are a document processing expert. Clean the following extracted PDF text by:",
    "\n", "\n", "Raw extracted text:", "\n">> \o rawText \o <<"\n", "\n", "Cleaned text:">>

(* cleanTextWithLLM without the test for empty content *)
CleanedOrRaw_NoEmptyTest(result, rawText) ==
  IF result.success /\ result.content.t = "txt"
    THEN Trim(result.content.c)
    ELSE rawText

(* cleanTextWithLLM returning the content as received *)
CleanedOrRaw_NoTrim(result, rawText) ==
  IF result.success /\ result.content.t = "txt" /\ Trim(result.content.c) # <<>>
    THEN result.content.c
    ELSE rawText

(* What cleanTextWithLLM returns for the result of processText: the      *)
(* trimmed content of a success, the raw text otherwise, also when       *)
(* content has no trim method and the catch block takes over.            *)
CleanedOrRaw(result, rawText) ==
  IF result.success /\ result.content.t = "txt" /\ Trim(result.content.c) # <<>>
    THEN Trim(result.content.c)
    ELSE rawText

(* ------------------------------ extractText --------------------------- *)
(* the if/else chain of extractText *)
SelectExtractor(f) ==
  LET fileName == NameToLowerCase(f.name)
  IN  IF f.type = MimeTxt \/ EndsWith(fileName, "txt") THEN "extractTextFromTxt"
      ELSE IF f.type = MimeDocx \/ EndsWith(fileName, "docx") THEN "extractTextFromDocx"
      ELSE IF f.type = MimePdf \/ EndsWith(fileName, "pdf") THEN "extractTextFromPdf"
      ELSE "unsupported"

(* the catch block of extractText *)
WrapExtract(err) ==
  "Failed to extract text: " \o (IF err.isError THEN err.message ELSE "Unknown error")

Pending == [state |-> "pending"]
Rejected(message) == [state |-> "rejected", message |-> message]
ResolvedText(text) == [state |-> "resolved", text |-> text]
ResolvedResult(result) == [state |-> "resolved", result |-> result]

(* ------------------------------- state -------------------------------- *)
VARIABLES
  op,        \* the call in progress: "none", "extractText", "convertToMarkdown", "processText"
  pc,        \* "idle", "extracting", "fetching", "done"
  file,      \* the file handed to extractText
  settings,  \* the settings handed to the call
  input,     \* the text of convertToMarkdown, the prompt of processText
  examples,  \* the examples handed to convertToMarkdown
  rawText,   \* the text the PDF extractor produced
  trace,     \* the routines entered so far, in order
  requests,  \* the HTTP requests issued so far, in order
  callee,    \* the call* method awaiting its fetch
  fetched,   \* how the fetch settled
  cleaning,  \* what processText returned to cleanTextWithLLM
  outcome,   \* how the promise of the call settled
  thrown,    \* the error the format extractor rejected with
  sized,     \* the byte count formatFileSize was called with, and what it returned
  \* extractTextFromPdf, page by page
  pdfPc,         \* "idle", "loading", "loop", "page", "done"
  pdfPages,      \* the pages of the document getDocument resolved with
  pageNum,       \* the loop variable
  fullText,      \* the text accumulated so far
  pageRequests,  \* the page numbers handed to getPage so far, in order
  pagesPending,  \* the page numbers requested and not yet answered
  pdfOutcome,    \* how the promise of extractTextFromPdf settled
  \* the App component and its FileUpload
  document,          \* DocumentInfo or null
  conversionResult,  \* ConversionResult or null
  resultSource,      \* the text the held conversionResult was produced from
  isConverting,
  showSettings,
  appSettings,       \* the provider and apiKey of the settings state
  inFlight,          \* the texts of the convertToMarkdown calls that have not settled
  uploading,         \* the extractText calls of FileUpload that have not settled
  convertCalls,      \* how many convertToMarkdown calls were issued
  \* the examples manager
  mgrExamples,       \* the examples state of the App
  selectedExamples,  \* settings.selectedExamples
  mgrUseExamples,    \* settings.useExamples
  now,               \* Date.now()
  lastEvent          \* the last event of the examples manager

coreVars ==
  <<op, pc, file, settings, input, examples, rawText, trace, requests, callee,
    fetched, cleaning, outcome, thrown, sized>>

pdfVars == <<pdfPc, pdfPages, pageNum, fullText, pageRequests, pagesPending, pdfOutcome>>

appVars ==
  <<document, conversionResult, resultSource, isConverting, showSettings, appSettings,
    inFlight, uploading, convertCalls>>

mgrVars == <<mgrExamples, selectedExamples, mgrUseExamples, now, lastEvent>>

vars == <<coreVars, pdfVars, appVars, mgrVars>>

NoFile == [name |-> <<>>, type |-> "", size |-> 0]
NoFetch == [kind |-> "none"]
NoResult == [none |-> TRUE]
NoThrow == [kind |-> "none"]
NoSize == [none |-> TRUE]

CoreInit ==
  /\ op = "none"
  /\ pc = "idle"
  /\ file = NoFile
  /\ settings = NoSettings
  /\ input = <<>>
  /\ examples = <<>>
  /\ rawText = <<>>
  /\ trace = <<>>
  /\ requests = <<>>
  /\ callee = "none"
  /\ fetched = NoFetch
  /\ cleaning = NoResult
  /\ outcome = Pending
  /\ thrown = NoThrow
  /\ sized = NoSize

Null == [isNull |-> TRUE]

PdfInit ==
  /\ pdfPc = "idle"
  /\ pdfPages = <<>>
  /\ pageNum = 0
  /\ fullText = <<>>
  /\ pageRequests = <<>>
  /\ pagesPending = {}
  /\ pdfOutcome = Pending

(* the settings state before anything was saved *)
DEFAULT_SETTINGS == [provider |-> "local", apiKey |-> <<>>]

AppInit ==
  /\ document = Null
  /\ conversionResult = Null
  /\ resultSource = Null
  /\ isConverting = FALSE
  /\ showSettings = FALSE
  /\ appSettings = DEFAULT_SETTINGS
  /\ inFlight = <<>>
  /\ uploading = <<>>
  /\ convertCalls = 0

MgrInit ==
  /\ mgrExamples = <<>>
  /\ selectedExamples = <<>>
  /\ mgrUseExamples = FALSE
  /\ now = 0
  /\ lastEvent = [kind |-> "none"]

Init == CoreInit /\ PdfInit /\ AppInit /\ MgrInit

(* ------------------------------ actions ------------------------------- *)
Settle(o) ==
  /\ pc' = "done"
  /\ outcome' = o

(* the call issuing its request twice *)
AwaitFetch_Twice(start) ==
  /\ requests' = requests \o <<start.request, start.request>>
  /\ callee' = start.callee
  /\ pc' = "fetching"
  /\ outcome' = Pending

(* the call suspends on the fetch it has just issued *)
AwaitFetch(start) ==
  /\ requests' = Append(requests, start.request)
  /\ callee' = start.callee
  /\ pc' = "fetching"
  /\ outcome' = Pending

(* extractText(file, settings) up to its first await: validateFile, then *)
(* the branch on type and name.                                          *)
ExtractTextCall ==
  /\ pc = "idle"
  /\ \E f \in Files, s \in ExtractSettings :
       LET valid == validateFile(f)
           extractor == SelectExtractor(f)
       IN  /\ op' = "extractText"
           /\ file' = f
           /\ settings' = s
           /\ IF valid.kind = "throw"
                THEN /\ trace' = <<"validateFile">>
                     /\ Settle(Rejected(valid.err.message))
              ELSE IF extractor = "unsupported"
                THEN /\ trace' = <<"validateFile">>
                     /\ Settle(Rejected(WrapExtract(JsError("Unsupported file type: " \o f.type))))
              ELSE IF extractor = "extractTextFromPdf" /\ ~s.present
                THEN /\ trace' = <<"validateFile">>
                     /\ Settle(Rejected(WrapExtract(
                          JsError("PDF processing requires LLM settings for text cleaning"))))
              ELSE /\ trace' = <<"validateFile", extractor>>
                   /\ pc' = "extracting"
                   /\ outcome' = Pending
  /\ UNCHANGED <<input, examples, rawText, requests, callee, fetched, cleaning, thrown, sized>>
  /\ UNCHANGED <<pdfVars, appVars, mgrVars>>

Extracting(extractor) ==
  /\ op = "extractText"
  /\ pc = "extracting"
  /\ trace[Len(trace)] = extractor

(* the rejection of an extractor; wrapped when the catch block of        *)
(* extractTextFromPdf built its message                                  *)
Thrown(err, wrapped) == [kind |-> "thrown", err |-> err, wrapped |-> wrapped]

(* the FileReader of extractTextFromTxt fires onload or onerror *)
TxtSettles ==
  /\ Extracting("extractTextFromTxt")
  /\ \E o \in TxtOutcomes :
       LET r == extractTextFromTxt(o)
       IN  /\ Settle(IF r.kind = "throw" THEN Rejected(WrapExtract(r.err))
                     ELSE ResolvedText(r.value))
           /\ thrown' = IF r.kind = "throw" THEN Thrown(r.err, FALSE) ELSE thrown
  /\ UNCHANGED <<op, file, settings, input, examples, rawText, trace, requests,
                 callee, fetched, cleaning, sized>>
  /\ UNCHANGED <<pdfVars, appVars, mgrVars>>

(* the FileReader and mammoth of extractTextFromDocx settle *)
DocxSettles ==
  /\ Extracting("extractTextFromDocx")
  /\ \E o \in DocxOutcomes :
       LET r == extractTextFromDocx(o)
       IN  /\ Settle(IF r.kind = "throw" THEN Rejected(WrapExtract(r.err))
                     ELSE ResolvedText(r.value))
           /\ thrown' = IF r.kind = "throw" THEN Thrown(r.err, FALSE) ELSE thrown
  /\ UNCHANGED <<op, file, settings, input, examples, rawText, trace, requests,
                 callee, fetched, cleaning, sized>>
  /\ UNCHANGED <<pdfVars, appVars, mgrVars>>

(* cleanTextWithLLM has the result of processText in hand *)
CleaningReturns(result, raw) ==
  /\ cleaning' = result
  /\ Settle(ResolvedText(CleanedOrRaw(result, raw)))

(* extractTextFromPdf settles; on success cleanTextWithLLM runs up to    *)
(* the fetch of processText.                                              *)
PdfSettles ==
  /\ Extracting("extractTextFromPdf")
  /\ \E o \in PdfOutcomes :
       LET r == extractTextFromPdf(o)
           prompt == CleaningPrompt(r.value)
           start == DispatchStart(prompt, settings)
       IN  IF r.kind = "throw"
             THEN /\ Settle(Rejected(WrapExtract(r.err)))
                  /\ thrown' = Thrown(r.err, PdfWrapped(o))
                  /\ UNCHANGED <<rawText, trace, requests, callee, cleaning>>
           ELSE IF IsBlank(r.value)
             THEN /\ Settle(Rejected(WrapExtract(JsError("No text content to clean"))))
                  /\ rawText' = r.value
                  /\ trace' = Append(trace, "cleanTextWithLLM")
                  /\ UNCHANGED <<requests, callee, cleaning, thrown>>
           ELSE /\ rawText' = r.value
                /\ UNCHANGED thrown
                /\ trace' = trace \o <<"cleanTextWithLLM", "processText">>
                /\ IF IsBlank(prompt)
                     THEN /\ CleaningReturns(BlankInputResult("processText"), r.value)
                          /\ UNCHANGED <<requests, callee>>
                   ELSE IF start.kind = "throw"
                     THEN /\ \E elapsed \in 0..MaxElapsed :
                               CleaningReturns(FailureResult(start.err, elapsed), r.value)
                          /\ UNCHANGED <<requests, callee>>
                   ELSE /\ AwaitFetch(start)
                        /\ UNCHANGED cleaning
  /\ UNCHANGED <<op, file, settings, input, examples, fetched, sized>>
  /\ UNCHANGED <<pdfVars, appVars, mgrVars>>

(* the fetch of the cleaning call settles: processText returns and       *)
(* cleanTextWithLLM keeps the cleaned text or falls back to the raw text *)
CleaningFetchSettles ==
  /\ op = "extractText"
  /\ pc = "fetching"
  /\ \E o \in FetchOutcomes, elapsed \in 0..MaxElapsed :
       /\ fetched' = o
       /\ CleaningReturns(LLMResult("processText", DispatchResume(callee, o), elapsed), rawText)
  /\ UNCHANGED <<op, file, settings, input, examples, rawText, trace, requests, callee,
                 thrown, sized>>
  /\ UNCHANGED <<pdfVars, appVars, mgrVars>>

(* The settings values handed to convertToMarkdown. *)
ConvertSettings ==
  {s \in AllSettings :
     (s.customPrompt # <<>> \/ s.useExamples) => (s.customBaseUrl = "" /\ s.customModel = "")}

(* convertToMarkdown(text, settings, examples) up to its fetch *)
ConvertToMarkdownCall ==
  /\ pc = "idle"
  /\ \E text \in Texts, s \in ConvertSettings, ex \in ExampleLists :
       LET prompt == buildPrompt(text, ex, s.customPrompt)
           start == DispatchStart(prompt, s)
       IN  /\ op' = "convertToMarkdown"
           /\ input' = text
           /\ settings' = s
           /\ examples' = ex
           /\ IF IsBlank(text)
                THEN /\ Settle(ResolvedResult(BlankInputResult("convertToMarkdown")))
                     /\ trace' = <<>>
                     /\ UNCHANGED <<requests, callee>>
              ELSE IF start.kind = "throw"
                THEN /\ \E elapsed \in 0..MaxElapsed :
                          Settle(ResolvedResult(FailureResult(start.err, elapsed)))
                     /\ trace' = <<"buildPrompt">>
                     /\ UNCHANGED <<requests, callee>>
              ELSE /\ AwaitFetch(start)
                   /\ trace' = <<"buildPrompt", start.callee>>
  /\ UNCHANGED <<file, rawText, fetched, cleaning, thrown, sized>>
  /\ UNCHANGED <<pdfVars, appVars, mgrVars>>

(* processText(prompt, settings) up to its fetch *)
ProcessTextCall ==
  /\ pc = "idle"
  /\ \E prompt \in Texts, s \in ProcessSettings :
       LET start == DispatchStart(prompt, s)
       IN  /\ op' = "processText"
           /\ input' = prompt
           /\ settings' = s
           /\ IF IsBlank(prompt)
                THEN /\ Settle(ResolvedResult(BlankInputResult("processText")))
                     /\ trace' = <<>>
                     /\ UNCHANGED <<requests, callee>>
              ELSE IF start.kind = "throw"
                THEN /\ \E elapsed \in 0..MaxElapsed :
                          Settle(ResolvedResult(FailureResult(start.err, elapsed)))
                     /\ trace' = <<>>
                     /\ UNCHANGED <<requests, callee>>
              ELSE /\ AwaitFetch(start)
                   /\ trace' = <<start.callee>>
  /\ UNCHANGED <<file, examples, rawText, fetched, cleaning, thrown, sized>>
  /\ UNCHANGED <<pdfVars, appVars, mgrVars>>

(* the fetch of convertToMarkdown or of processText settles and the call *)
(* returns its result                                                    *)
LLMFetchSettles ==
  /\ op \in {"convertToMarkdown", "processText"}
  /\ pc = "fetching"
  /\ \E o \in FetchOutcomes, elapsed \in 0..MaxElapsed :
       /\ fetched' = o
       /\ Settle(ResolvedResult(LLMResult(op, DispatchResume(callee, o), elapsed)))
  /\ UNCHANGED <<op, file, settings, input, examples, rawText, trace, requests,
                 callee, cleaning, thrown, sized>>
  /\ UNCHANGED <<pdfVars, appVars, mgrVars>>

(* formatFileSize(bytes) *)
FormatFileSizeCall ==
  /\ pc = "idle"
  /\ \E bytes \in ByteCounts :
       /\ op' = "formatFileSize"
       /\ sized' = [bytes |-> bytes, parts |-> formatFileSizeParts(bytes.m, bytes.e)]
       /\ pc' = "done"
  /\ UNCHANGED <<file, settings, input, examples, rawText, trace, requests, callee,
                 fetched, cleaning, outcome, thrown>>
  /\ UNCHANGED <<pdfVars, appVars, mgrVars>>

Next ==
  \/ ExtractTextCall
  \/ TxtSettles
  \/ DocxSettles
  \/ PdfSettles
  \/ CleaningFetchSettles
  \/ ConvertToMarkdownCall
  \/ ProcessTextCall
  \/ LLMFetchSettles
  \/ FormatFileSizeCall

Spec == Init /\ [][Next]_vars

(* ------------------------------ properties ---------------------------- *)
Extractors == {"extractTextFromTxt", "extractTextFromDocx", "extractTextFromPdf"}

Entered(routine) == \E i \in DOMAIN trace : trace[i] = routine

NoExtractorNoLLM ==
  /\ \A i \in DOMAIN trace : trace[i] \notin Extractors \cup {"cleanTextWithLLM", "processText"}
  /\ requests = <<>>

(* The extension of a file name, lower-cased: what follows its last dot, *)
(* for a name that has a dot.                                            *)
HasExtension(name, ext) ==
  Len(name) >= 2 /\ ToLowerCase(name[Len(name)]) = ext

HasSupportedExtension(name) ==
  \E ext \in {"txt", "docx", "pdf"} : HasExtension(name, ext)

WithinCeiling == op = "extractText" /\ file.size <= 10485760

SizeMessage == "File size must be less than 10 MB"
TypeMessage == "Please upload a TXT, DOCX, or PDF file"
PdfSettingsMessage == "PDF processing requires LLM settings for text cleaning"

(* C1: a file of more than 10,485,760 bytes is rejected with 'File size  *)
(* must be less than 10 MB' and neither an extractor nor the LLM is      *)
(* entered, whatever its type, name and the settings.                    *)
C1_OversizeRejectedFirst ==
  (op = "extractText" /\ file.size > 10485760)
    => /\ pc = "done"
       /\ outcome = Rejected(SizeMessage)
       /\ NoExtractorNoLLM

C1_Witness ==
  /\ op = "extractText"
  /\ file.size > 10485760
  /\ file.type = "application/unknown"
  /\ file.name = <<"xyz">>
  /\ settings.present
  /\ outcome = Rejected(SizeMessage)

(* C2: a file within the ceiling whose MIME type is unsupported and      *)
(* whose lower-cased extension is none of .txt, .docx, .pdf is rejected  *)
(* with exactly 'Please upload a TXT, DOCX, or PDF file', no extractor   *)
(* entered.                                                               *)
C2_UnsupportedRejectedExactly ==
  (WithinCeiling /\ file.type \notin SupportedTypes /\ ~HasSupportedExtension(file.name))
    => /\ pc = "done"
       /\ outcome = Rejected(TypeMessage)
       /\ NoExtractorNoLLM

(* C3: a file within the ceiling passes validation exactly if its MIME   *)
(* type is supported or its lower-cased extension is .txt, .docx or .pdf *)
C3_ValidIffTypeOrExtension ==
  WithinCeiling
    => (outcome # Rejected(TypeMessage)
          <=> (file.type \in SupportedTypes \/ HasSupportedExtension(file.name)))

(* C4: on the PDF path, extractText without settings rejects with the    *)
(* message 'PDF processing requires LLM settings for text cleaning',     *)
(* verbatim.                                                              *)
C4_PdfWithoutSettingsVerbatim ==
  (/\ op = "extractText"
   /\ validateFile(file).kind = "return"
   /\ SelectExtractor(file) = "extractTextFromPdf"
   /\ ~settings.present)
    => outcome = Rejected(PdfSettingsMessage)

(* The cleaning call failed: processText reported failure, or its        *)
(* content is missing, no string (trim throws), or empty once trimmed.   *)
CleaningFailed ==
  /\ cleaning # NoResult
  /\ \/ ~cleaning.success
     \/ cleaning.content.t # "txt"
     \/ \A i \in DOMAIN cleaning.content.c : cleaning.content.c[i] \in WhiteSpace

CleaningSucceeded ==
  /\ cleaning # NoResult
  /\ cleaning.success
  /\ cleaning.content.t = "txt"
  /\ \E i \in DOMAIN cleaning.content.c : cleaning.content.c[i] \notin WhiteSpace

(* C5: when the cleaning call of a PDF fails, throws or returns content  *)
(* empty after trimming, extractText resolves with the raw extracted     *)
(* text unchanged.                                                        *)
C5_CleaningFallsBackToRaw ==
  (op = "extractText" /\ CleaningFailed)
    => /\ pc = "done"
       /\ rawText # <<>>
       /\ outcome = ResolvedText(rawText)

C5_Witness ==
  /\ op = "extractText"
  /\ CleaningFailed
  /\ fetched.kind = "response"
  /\ cleaning.success
  /\ cleaning.content = JTxt(<<" ">>)
  /\ outcome = ResolvedText(rawText)

(* C6: when the cleaning call of a PDF succeeds with content that is     *)
(* non-empty after trimming, extractText returns that content trimmed.   *)
C6_CleanedContentTrimmed ==
  (op = "extractText" /\ CleaningSucceeded)
    => /\ pc = "done"
       /\ outcome.state = "resolved"
       /\ outcome.text = Trim(cleaning.content.c)
       /\ Head(outcome.text) \notin WhiteSpace
       /\ outcome.text[Len(outcome.text)] \notin WhiteSpace

C6_Witness ==
  /\ op = "extractText"
  /\ CleaningSucceeded
  /\ cleaning.content = JTxt(<<" ", "a">>)
  /\ outcome = ResolvedText(<<"a">>)
  /\ rawText # <<"a">>

LLMCall == op \in {"convertToMarkdown", "processText"}

RegistryIds == {"local", "openai", "anthropic", "groq"}
KeyProviders == {"openai", "groq", "anthropic"}

OnlyWhiteSpace(text) == \A i \in DOMAIN text : text[i] \in WhiteSpace

(* value.a[0].b.c is a string *)
HasStringAt(value, a, b, c) ==
  /\ value.t = "obj" /\ a \in DOMAIN value.f
  /\ value.f[a].t = "arr" /\ Len(value.f[a].e) >= 1
  /\ LET first == value.f[a].e[1]
     IN  /\ first.t = "obj"
         /\ IF b = "" THEN c \in DOMAIN first.f /\ first.f[c].t = "txt"
            ELSE /\ b \in DOMAIN first.f
                 /\ first.f[b].t = "obj"
                 /\ c \in DOMAIN first.f[b].f
                 /\ first.f[b].f[c].t = "txt"

(* the 2xx body has the shape the provider documents *)
ExpectedShape(body) ==
  /\ body.parses
  /\ IF callee = "callAnthropic" THEN HasStringAt(body.value, "content", "", "text")
     ELSE HasStringAt(body.value, "choices", "message", "content")

(* One of the failures of dispatch: unknown provider, missing key, fetch *)
(* rejection, non-2xx status, malformed or unexpectedly shaped body.     *)
DispatchFailed ==
  \/ settings.provider \notin RegistryIds
  \/ settings.provider \in KeyProviders /\ settings.apiKey = ""
  \/ fetched.kind = "reject"
  \/ fetched.kind = "response" /\ ~fetched.response.ok
  \/ fetched.kind = "response" /\ ~ExpectedShape(fetched.response.body)

(* C7: convertToMarkdown and processText never reject, and every failure *)
(* of dispatch resolves to a result with success = false and an error.   *)
C7_NeverRejectsFailureResult ==
  (LLMCall /\ pc = "done")
    => /\ outcome.state = "resolved"
       /\ DispatchFailed
            => /\ ~outcome.result.success
               /\ "error" \in DOMAIN outcome.result

(* C8: a result of convertToMarkdown has markdown and no error when      *)
(* success is true, and a non-empty error and no markdown when false.    *)
C8_ExactlyOneOfMarkdownError ==
  (op = "convertToMarkdown" /\ pc = "done")
    => LET r == outcome.result
           hasMarkdown == "markdown" \in DOMAIN r /\ ~IsNullish(r.markdown)
           hasError == "error" \in DOMAIN r /\ r.error # ""
       IN  IF r.success THEN hasMarkdown /\ ~hasError
           ELSE hasError /\ ~hasMarkdown

(* C9: an empty or whitespace-only input to convertToMarkdown or         *)
(* processText gives a failure result with elapsed time 0 and no HTTP    *)
(* request, whatever the settings.                                        *)
C9_BlankInputShortCircuits ==
  (LLMCall /\ OnlyWhiteSpace(input))
    => /\ pc = "done"
       /\ outcome.state = "resolved"
       /\ ~outcome.result.success
       /\ outcome.result.error # ""
       /\ outcome.result.processingTime = 0
       /\ requests = <<>>
       /\ fetched = NoFetch

C9_Witness ==
  /\ op = "processText"
  /\ input = <<" ", " ">>
  /\ settings.provider = "openai"
  /\ settings.apiKey # ""
  /\ pc = "done"
  /\ requests = <<>>

ProviderLabel(id) ==
  IF id = "openai" THEN "OpenAI" ELSE IF id = "groq" THEN "Groq" ELSE "Anthropic"

FailedWith(message) ==
  /\ pc = "done"
  /\ outcome.state = "resolved"
  /\ ~outcome.result.success
  /\ outcome.result.error = message
  /\ requests = <<>>
  /\ fetched = NoFetch

(* C10: for a non-blank input, an unknown provider gives the failure     *)
(* 'Invalid LLM provider: <id>' and an empty key with openai, groq or    *)
(* anthropic gives '<Provider> API key is required', both without any    *)
(* HTTP request.                                                          *)
C10_ConfigurationErrorsNoRequest ==
  (LLMCall /\ ~OnlyWhiteSpace(input))
    => /\ settings.provider \notin RegistryIds
            => FailedWith("Invalid LLM provider: " \o settings.provider)
       /\ (settings.provider \in KeyProviders /\ settings.apiKey = "")
            => FailedWith(ProviderLabel(settings.provider) \o " API key is required")

C10_Witness ==
  /\ op = "convertToMarkdown"
  /\ ~OnlyWhiteSpace(input)
  /\ settings.provider = "groq"
  /\ settings.apiKey = ""
  /\ FailedWith("Groq API key is required")

(* The 2xx response in hand carries choices[0].message, an object. *)
HasMessage ==
  /\ fetched.kind = "response"
  /\ fetched.response.ok
  /\ fetched.response.body.parses
  /\ LET value == fetched.response.body.value
     IN  /\ value.t = "obj" /\ "choices" \in DOMAIN value.f
         /\ value.f.choices.t = "arr" /\ Len(value.f.choices.e) >= 1
         /\ value.f.choices.e[1].t = "obj"
         /\ "message" \in DOMAIN value.f.choices.e[1].f
         /\ value.f.choices.e[1].f.message.t = "obj"

(* choices[0].message.content of that response *)
MessageContent ==
  LET message == fetched.response.body.value.f.choices.e[1].f.message
  IN  IF "content" \in DOMAIN message.f THEN message.f.content ELSE Undef

(* usage.total_tokens of that response, 0 without it *)
TotalTokens ==
  LET value == fetched.response.body.value
  IN  IF /\ "usage" \in DOMAIN value.f
         /\ value.f.usage.t = "obj"
         /\ "total_tokens" \in DOMAIN value.f.usage.f
        THEN value.f.usage.f.total_tokens
        ELSE JNum(0)

(* C11: with openai or groq and a non-empty key, a 2xx response whose    *)
(* choices[0].message.content is c gives success = true, markdown = c    *)
(* (content = c for processText) and tokensUsed = usage.total_tokens, 0  *)
(* when usage is absent.                                                  *)
C11_OpenAICompatibleSuccess ==
  (/\ LLMCall
   /\ pc = "done"
   /\ settings.provider \in {"openai", "groq"}
   /\ settings.apiKey # ""
   /\ HasMessage)
    => LET r == outcome.result
       IN  /\ r.success
           /\ IF op = "convertToMarkdown" THEN r.markdown = MessageContent
              ELSE r.content = MessageContent
           /\ r.tokensUsed = TotalTokens

C11_Witness ==
  /\ op = "convertToMarkdown"
  /\ pc = "done"
  /\ settings.provider = "groq"
  /\ HasMessage
  /\ MessageContent = JTxt(<<"a">>)
  /\ outcome.result.tokensUsed = JNum(150)

(* error.message of the response body in hand, where the body is JSON   *)
(* and carries one as a non-empty string                                 *)
HasErrorMessage ==
  /\ fetched.response.body.parses
  /\ LET value == fetched.response.body.value
     IN  /\ value.t = "obj" /\ "error" \in DOMAIN value.f
         /\ value.f.error.t = "obj"
         /\ "message" \in DOMAIN value.f.error.f
         /\ value.f.error.f.message.t = "str"
         /\ value.f.error.f.message.s # ""

(* C12: with openai, groq or anthropic every non-2xx response gives a    *)
(* failure result whose error is the body's error.message when present   *)
(* and '<Provider> API request failed' otherwise.                         *)
C12_Non2xxErrorMessage ==
  (/\ LLMCall
   /\ pc = "done"
   /\ settings.provider \in KeyProviders
   /\ fetched.kind = "response"
   /\ ~fetched.response.ok)
    => /\ outcome.state = "resolved"
       /\ ~outcome.result.success
       /\ outcome.result.error =
            IF HasErrorMessage THEN fetched.response.body.value.f.error.f.message.s
            ELSE ProviderLabel(settings.provider) \o " API request failed"

(* C13: with provider 'local' the request goes to customBaseUrl, else   *)
(* the registry base URL, plus /chat/completions, with model customModel *)
(* (else 'custom'), and has no Authorization header even with a key.     *)
C13_LocalRequest ==
  (settings.present /\ settings.provider = "local")
    => /\ (LLMCall /\ ~OnlyWhiteSpace(input)) => Len(requests) = 1
       /\ \A i \in DOMAIN requests :
            /\ requests[i].url =
                 (IF settings.customBaseUrl # "" THEN settings.customBaseUrl
                  ELSE "http://localhost:11434/v1") \o "/chat/completions"
            /\ requests[i].body.model =
                 (IF settings.customModel # "" THEN settings.customModel ELSE "custom")
            /\ DOMAIN requests[i].headers = {"contentType"}

C13_Witness ==
  /\ LLMCall
  /\ settings.provider = "local"
  /\ settings.apiKey = "sk-key"
  /\ settings.customBaseUrl = "http://host:1234/v1"
  /\ settings.customModel = "llama2"
  /\ Len(requests) = 1
  /\ requests[1].url = "http://host:1234/v1/chat/completions"

(* the prompt of the request convertToMarkdown issued *)
OutboundPrompt == requests[1].body.messages[1].content

TemplateMarkers ==
  { "You are an expert legal document processor specializing in Singapore civil litigation.",
    "CRITICAL REQUIREMENTS:", "FORMATTING GUIDELINES:" }

ExamplesIntro == "Here are examples of good conversions:"

ExampleHeader(i, example) ==
  "Example " \o ToString(i) \o " (" \o example.pleadingType \o "):"

ExampleHeaders ==
  {ExampleHeader(i, example) : i \in 0..(MaxExamples + 1), example \in Examples}

Contains(seq, atoms) == \E i \in DOMAIN seq : seq[i] \in atoms

Separator == <<"\n", "\n", "Now convert this legal pleading:", "\n", "\n">>
Closing == <<"\n", "\n", "Provide only the clean markdown conversion:">>

(* C14: a customPrompt that is non-empty after trimming makes the prompt *)
(* the trimmed instruction, the separator, the text and the closing      *)
(* instruction, with nothing of the default template and no examples; an *)
(* empty or whitespace-only customPrompt gives the default template.     *)
C14_CustomPromptReplacesTemplate ==
  (op = "convertToMarkdown" /\ requests # <<>>)
    => IF ~OnlyWhiteSpace(settings.customPrompt)
         THEN /\ OutboundPrompt = Trim(settings.customPrompt) \o Separator \o input \o Closing
              /\ ~Contains(OutboundPrompt, TemplateMarkers \cup {ExamplesIntro} \cup ExampleHeaders)
         ELSE /\ Len(OutboundPrompt) >= 3
              /\ {OutboundPrompt[i] : i \in 1..3} = TemplateMarkers

C14_Witness ==
  /\ op = "convertToMarkdown"
  /\ requests # <<>>
  /\ settings.customPrompt = <<" ", "a">>
  /\ examples # <<>>
  /\ OutboundPrompt[1] = "a"

(* the i-th example of the list is announced in the prompt *)
AnnouncesExample(prompt, i) ==
  \E j \in DOMAIN prompt : \E example \in Examples : prompt[j] = ExampleHeader(i, example)

(* C15 as stated: with one example and useExamples true, the request     *)
(* convertToMarkdown issues contains 'Example 1' whatever the other      *)
(* settings are.                                                         *)
C15_OneExampleAlwaysInBody ==
  (op = "convertToMarkdown" /\ requests # <<>> /\ Len(examples) = 1 /\ settings.useExamples)
    => AnnouncesExample(OutboundPrompt, 1)

(* C15 amended: with one example and useExamples true, the request       *)
(* convertToMarkdown issues contains 'Example 1' whenever the custom     *)
(* instruction is empty or whitespace-only.                              *)
C15_OneExampleInDefaultPrompt ==
  (op = "convertToMarkdown" /\ requests # <<>> /\ Len(examples) = 1 /\ settings.useExamples
     /\ OnlyWhiteSpace(settings.customPrompt))
    => AnnouncesExample(OutboundPrompt, 1)

C15_Witness ==
  /\ op = "convertToMarkdown"
  /\ requests # <<>>
  /\ Len(examples) = 1
  /\ settings.useExamples
  /\ settings.customPrompt = <<" ">>
  /\ AnnouncesExample(OutboundPrompt, 1)

(* what the prompt shows of one example under its 1-based index *)
ExampleEntry(i, example) ==
  <<ExampleHeader(i, example), "\n", "Original:", "\n">> \o example.originalText
    \o <<"\n", "\n", "Converted:", "\n">> \o example.convertedMarkdown

HeaderPositions(prompt) == {j \in DOMAIN prompt : prompt[j] \in ExampleHeaders}

DocumentPosition(prompt) ==
  CHOOSE j \in DOMAIN prompt : prompt[j] = "Now convert this legal pleading:"

(* the entry of the i-th example starts at the i-th header of the prompt *)
(* and ends before the document                                          *)
ListedAt(prompt, i, example) ==
  \E j \in HeaderPositions(prompt) :
    /\ Cardinality({k \in HeaderPositions(prompt) : k < j}) = i - 1
    /\ j + Len(ExampleEntry(i, example)) - 1 < DocumentPosition(prompt)
    /\ SubSeq(prompt, j, j + Len(ExampleEntry(i, example)) - 1) = ExampleEntry(i, example)

(* C16: under the default template the prompt has an examples block only *)
(* when the list is non-empty, and the block lists 'Example i (type):'   *)
(* with the original and converted text of the i-th supplied example,    *)
(* for i = 1..n in list order, before the document text.                 *)
C16_ExamplesBlockInListOrder ==
  (op = "convertToMarkdown" /\ requests # <<>> /\ OnlyWhiteSpace(settings.customPrompt))
    => /\ Contains(OutboundPrompt, {ExamplesIntro}) <=> Len(examples) >= 1
       /\ Cardinality(HeaderPositions(OutboundPrompt)) = Len(examples)
       /\ \A i \in DOMAIN examples : ListedAt(OutboundPrompt, i, examples[i])
       /\ SubSeq(OutboundPrompt, DocumentPosition(OutboundPrompt) + 3,
                 DocumentPosition(OutboundPrompt) + 2 + Len(input)) = input

C16_Witness ==
  /\ op = "convertToMarkdown"
  /\ requests # <<>>
  /\ settings.customPrompt = <<>>
  /\ Len(examples) = 2
  /\ examples[1].id = "2"
  /\ examples[2].id = "1"
  /\ ListedAt(OutboundPrompt, 1, examples[1])
  /\ ListedAt(OutboundPrompt, 2, examples[2])

(* formatFileSize returned for the plain byte count n *)
Formatted(n) == op = "formatFileSize" /\ sized.bytes = [m |-> n, e |-> 0]

(* the string formatFileSize returned *)
SizeString == Join(sized.parts)

(* the string ends in the blank and the unit *)
EndsInUnit(unit) ==
  /\ Len(sized.parts) = 3
  /\ SizeString = sized.parts[1] \o " " \o unit

(* C17: formatFileSize(0) is '0 Bytes'; a negative count gives 'Invalid  *)
(* size'; every count in [1024, 1048575] ends in 'KB'; 1024, 1536,       *)
(* 1048576 and 1073741824 give '1 KB', '1.5 KB', '1 MB' and '1 GB'.      *)
C17_FormatFileSizeValues ==
  op = "formatFileSize"
    => /\ sized.bytes.m = 0 => SizeString = "0 Bytes"
       /\ sized.bytes.m < 0 => SizeString = "Invalid size"
       /\ (sized.bytes.e = 0 /\ sized.bytes.m \in 1024..1048575) => EndsInUnit("KB")
       /\ Formatted(1024) => SizeString = "1 KB"
       /\ Formatted(1536) => SizeString = "1.5 KB"
       /\ Formatted(1048576) => SizeString = "1 MB"
       /\ Formatted(1073741824) => SizeString = "1 GB"

C17_Witness == Formatted(1048575) /\ SizeString = "1024 KB"

(* the largest of the four units that fits the byte count m * 1024^e *)
LargestFittingUnit(m, e) ==
  LET fits == {i \in DOMAIN SizeUnits : i - 1 <= FloorLog(m, 1024) + e}
  IN  SizeUnits[CHOOSE i \in fits : \A j \in fits : j <= i]

(* C18: for every positive byte count the result ends in the largest of  *)
(* the units Bytes, KB, MB, GB that fits it, and in no other unit text.  *)
C18_OnlyFourUnits ==
  (op = "formatFileSize" /\ sized.bytes.m > 0)
    => EndsInUnit(LargestFittingUnit(sized.bytes.m, sized.bytes.e))

(* the message contains 'Unsupported file type: <type>': it is that text *)
(* or that text behind the prefix of extractText                         *)
UnsupportedMessages(type) ==
  { "Unsupported file type: " \o type,
    "Failed to extract text: Unsupported file type: " \o type }

(* C19: extractText on a file whose MIME type and extension are both     *)
(* outside the supported set rejects with a message that contains        *)
(* 'Unsupported file type: ' followed by the declared MIME type.         *)
C19_UnsupportedTypeMessage ==
  (WithinCeiling /\ file.type \notin SupportedTypes /\ ~HasSupportedExtension(file.name))
    => /\ pc = "done"
       /\ outcome.state = "rejected"
       /\ outcome.message \in UnsupportedMessages(file.type)

(* C20: an error thrown by a format extractor leaves extractText as      *)
(* 'Failed to extract text: ' and the original message, except that a    *)
(* message the PDF extractor has wrapped itself is passed on without the *)
(* prefix.                                                               *)
C20_NoDoubleWrapping ==
  (op = "extractText" /\ thrown.kind = "thrown")
    => outcome = Rejected(IF thrown.wrapped THEN thrown.err.message
                          ELSE "Failed to extract text: " \o thrown.err.message)

(* C22: when the error thrown during dispatch has no message (it is no   *)
(* Error, or its message is empty) the failure result of                 *)
(* convertToMarkdown and processText carries 'Unknown error occurred';   *)
(* otherwise it carries the message of the error.                        *)
C22_UnknownErrorWhenNoMessage ==
  (LLMCall /\ pc = "done" /\ fetched.kind = "reject")
    => /\ outcome.state = "resolved"
       /\ ~outcome.result.success
       /\ outcome.result.error =
            (IF ~fetched.err.isError \/ fetched.err.message = ""
               THEN "Unknown error occurred"
               ELSE fetched.err.message)

(* the extractors entered by the call *)
ExtractorsEntered == {trace[i] : i \in DOMAIN trace} \cap Extractors

ExtractorOfType(type) ==
  IF type = MimeTxt THEN "extractTextFromTxt"
  ELSE IF type = MimeDocx THEN "extractTextFromDocx"
  ELSE "extractTextFromPdf"

ExtractorsOfExtension(name) ==
  {e \in Extractors :
     \/ e = "extractTextFromTxt" /\ HasExtension(name, "txt")
     \/ e = "extractTextFromDocx" /\ HasExtension(name, "docx")
     \/ e = "extractTextFromPdf" /\ HasExtension(name, "pdf")}

(* C23: for a validated file whose MIME type is one of the three         *)
(* supported types the extractor of that type is the one invoked,        *)
(* whatever the extension; the extension decides only when the MIME type *)
(* matches none.                                                         *)
C23_MimeTypeFirst ==
  (op = "extractText" /\ validateFile(file).kind = "return")
    => IF file.type \in SupportedTypes
         THEN /\ ExtractorsEntered \subseteq {ExtractorOfType(file.type)}
              /\ (file.type # MimePdf \/ settings.present)
                   => ExtractorsEntered = {ExtractorOfType(file.type)}
         ELSE ExtractorsEntered \subseteq ExtractorsOfExtension(file.name)

(* C24: a file that passes validateFile is dispatched to one of the      *)
(* three extractors (or, as a PDF without settings, stopped before it):  *)
(* the branch 'Unsupported file type: <type>' is never taken.            *)
C24_DefensiveBranchUnreachable ==
  (op = "extractText" /\ validateFile(file).kind = "return")
    => /\ SelectExtractor(file) \in Extractors
       /\ ~(outcome.state = "rejected"
            /\ outcome.message \in UnsupportedMessages(file.type))

(* how often the routine was entered *)
TimesEntered(routine) == Cardinality({i \in DOMAIN trace : trace[i] = routine})

StageOrder(extractor) == <<"validateFile", extractor, "cleanTextWithLLM", "processText">>

(* C26: within one extractText call the stages run in the order          *)
(* validate, extract, clean; the LLM is called only on the PDF path,     *)
(* only with settings present and after the PDF extraction gave          *)
(* non-empty text, and then exactly once; plain-text and word-processor  *)
(* files never cause an LLM call, with or without settings.              *)
C26_ValidateExtractClean ==
  op = "extractText"
    => /\ \E extractor \in Extractors :
            /\ Len(trace) <= 4
            /\ trace = SubSeq(StageOrder(extractor), 1, Len(trace))
       /\ Entered("processText")
            => /\ trace[2] = "extractTextFromPdf"
               /\ settings.present
               /\ ~OnlyWhiteSpace(rawText)
               /\ TimesEntered("processText") = 1
       /\ (Entered("extractTextFromPdf") /\ rawText # <<>>) => Entered("processText")
       /\ Len(requests) <= 1
       /\ requests # <<>> => Entered("processText")
       /\ (Entered("extractTextFromTxt") \/ Entered("extractTextFromDocx"))
            => /\ ~Entered("cleanTextWithLLM") /\ ~Entered("processText")
               /\ requests = <<>>

C26_Witness ==
  /\ op = "extractText"
  /\ pc = "done"
  /\ trace = StageOrder("extractTextFromPdf")
  /\ Len(requests) = 1
  /\ outcome.state = "resolved"

(* the endpoint of the registry for the providers that take a key *)
RegistryEndpoint(id) ==
  IF id = "openai" THEN "https://api.openai.com/v1/chat/completions"
  ELSE IF id = "groq" THEN "https://api.groq.com/openai/v1/chat/completions"
  ELSE "https://api.anthropic.com/v1/messages"

(* the settings that differ from s at most in the two custom fields *)
CustomVariants(s) ==
  {[s EXCEPT !.customBaseUrl = url, !.customModel = model] :
     url \in CustomBaseUrls, model \in CustomModels}

(* C30: for openai, groq and anthropic the request goes to the registry  *)
(* URL with settings.model, and settings that differ only in             *)
(* customBaseUrl or customModel give the same request: the key is never  *)
(* sent to a custom base URL.                                             *)
C30_CustomFieldsIgnored ==
  (LLMCall /\ settings.provider \in KeyProviders /\ requests # <<>>)
    => /\ Len(requests) = 1
       /\ requests[1].url = RegistryEndpoint(settings.provider)
       /\ requests[1].body.model = settings.model
       /\ \A other \in CustomVariants(settings) :
            LET start == DispatchStart(requests[1].body.messages[1].content, other)
            IN  start.kind = "fetch" /\ start.request = requests[1]

C30_Witness ==
  /\ LLMCall
  /\ settings.provider = "openai"
  /\ settings.customBaseUrl = "http://host:1234/v1"
  /\ settings.customModel = "llama2"
  /\ Len(requests) = 1
  /\ requests[1].url = "https://api.openai.com/v1/chat/completions"
  /\ requests[1].headers.authorization = "Bearer sk-key"

(* ------------------- extractTextFromPdf, page by page ----------------- *)
MaxDocPages == 3

(* The pages a document is made of: without items, with one fragment,   *)
(* with blank and absent fragments only, with fragments to trim and to  *)
(* drop, and one whose request fails.                                   *)
SamplePages ==
  { Return(<<>>),
    Return(<<JTxt(<<"a">>)>>),
    Return(<<JTxt(<<" ">>), Undef>>),
    Return(<<JTxt(<<" ", "a">>), JTxt(<<" ">>), Undef, JTxt(<<"a", " ">>)>>),
    Throw(JsError("Invalid page request")) }

PdfDocuments ==
  {[kind |-> "doc", pages |-> ps] : ps \in SeqsUpTo(SamplePages, MaxDocPages)}
  \cup {[kind |-> "loadError", err |-> JsError("Invalid PDF structure")],
        [kind |-> "noBuffer"], [kind |-> "error"]}

(* the loop stepping over a page *)
NextPage_Skip(n) == n + 2

(* pageNum++ *)
NextPage(n) == n + 1

PdfSettle(r) ==
  /\ pdfPc' = "done"
  /\ pdfOutcome' = IF r.kind = "throw" THEN Rejected(r.err.message) ELSE ResolvedText(r.value)

(* extractTextFromPdf(file) until the document is open: the FileReader   *)
(* fires onerror or onload, and getDocument settles                      *)
PdfCall ==
  /\ pdfPc = "idle"
  /\ \E o \in PdfDocuments :
       IF o.kind = "doc"
         THEN /\ pdfPages' = o.pages
              /\ pageNum' = 1
              /\ pdfPc' = "loop"
              /\ UNCHANGED pdfOutcome
         ELSE /\ PdfSettle(extractTextFromPdf(o))
              /\ UNCHANGED <<pdfPages, pageNum>>
  /\ UNCHANGED <<fullText, pageRequests, pagesPending>>
  /\ UNCHANGED <<coreVars, appVars, mgrVars>>

(* the loop test holds: pdfDocument.getPage(pageNum) is called *)
RequestPage ==
  /\ pdfPc = "loop"
  /\ pageNum <= Len(pdfPages)
  /\ pageRequests' = Append(pageRequests, pageNum)
  /\ pagesPending' = pagesPending \cup {pageNum}
  /\ pdfPc' = "page"
  /\ UNCHANGED <<pdfPages, pageNum, fullText, pdfOutcome>>
  /\ UNCHANGED <<coreVars, appVars, mgrVars>>

(* getPage and getTextContent of the page settle; the page text is       *)
(* appended and the loop goes on, or the catch block rejects             *)
PageSettles ==
  /\ pdfPc = "page"
  /\ pagesPending' = pagesPending \ {pageNum}
  /\ LET page == pdfPages[pageNum]
         pageText == PageText(page.value)
     IN  IF page.kind = "throw"
           THEN /\ PdfSettle(PdfWrap(page.err))
                /\ UNCHANGED <<pageNum, fullText>>
           ELSE /\ fullText' = IF pageText # <<>> THEN fullText \o pageText \o <<"\n", "\n">>
                               ELSE fullText
                /\ pageNum' = NextPage(pageNum)
                /\ pdfPc' = "loop"
                /\ UNCHANGED pdfOutcome
  /\ UNCHANGED <<pdfPages, pageRequests>>
  /\ UNCHANGED <<coreVars, appVars, mgrVars>>

(* the loop test fails: the text is trimmed and resolved, or rejected    *)
(* when nothing is left                                                  *)
PdfFinish ==
  /\ pdfPc = "loop"
  /\ pageNum > Len(pdfPages)
  /\ PdfSettle(IF Trim(fullText) = <<>> THEN PdfWrap(JsError(NoReadableText))
               ELSE Return(Trim(fullText)))
  /\ UNCHANGED <<pdfPages, pageNum, fullText, pageRequests, pagesPending>>
  /\ UNCHANGED <<coreVars, appVars, mgrVars>>

PdfNext ==
  \/ PdfCall
  \/ RequestPage
  \/ PageSettles
  \/ PdfFinish

PdfSpec == Init /\ [][PdfNext]_vars

(* the stepwise run and extractTextFromPdf agree on every document *)
PdfStepsAgree ==
  (pdfPc = "done" /\ pdfPages # <<>>)
    => LET r == extractTextFromPdf([kind |-> "doc", pages |-> pdfPages])
       IN  pdfOutcome = (IF r.kind = "throw" THEN Rejected(r.err.message)
                         ELSE ResolvedText(r.value))

(* the fragments of a page that are strings, trimmed, the empty ones     *)
(* discarded                                                             *)
Fragments(items) ==
  SelectSeq([i \in DOMAIN items |-> IF items[i].t = "txt" THEN Trim(items[i].c) ELSE <<>>],
            LAMBDA f : f # <<>>)

RECURSIVE JoinWith(_, _)
JoinWith(texts, sep) ==
  IF texts = <<>> THEN <<>>
  ELSE IF Len(texts) = 1 THEN texts[1]
  ELSE texts[1] \o sep \o JoinWith(Tail(texts), sep)

(* a page's text: its fragments joined by single spaces *)
TextOfPage(page) == JoinWith(Fragments(page.value), <<" ">>)

PageTexts == [i \in DOMAIN pdfPages |-> TextOfPage(pdfPages[i])]

OneToN(n) == [i \in 1..n |-> i]

(* the pages are requested in the order 1..numPages, one at a time *)
PagesInOrder ==
  /\ Len(pageRequests) <= Len(pdfPages)
  /\ pageRequests = OneToN(Len(pageRequests))
  /\ Cardinality(pagesPending) <= 1
  /\ pdfOutcome.state = "resolved" => pageRequests = OneToN(Len(pdfPages))

(* C25 as stated: the pages are requested in the order 1..numPages, each *)
(* once and one at a time; the result is the text of all pages in that   *)
(* order joined by a blank line; an empty trimmed text is a failure.     *)
C25_AllPageTextsJoined ==
  /\ PagesInOrder
  /\ pdfOutcome.state = "resolved"
       => /\ pdfOutcome.text = Trim(JoinWith(PageTexts, <<"\n", "\n">>))
          /\ pdfOutcome.text # <<>>

(* C25 amended: as above, the result being the non-empty page texts in   *)
(* page order joined by a blank line: a page without text adds nothing.  *)
C25_NonEmptyPageTextsJoined ==
  /\ PagesInOrder
  /\ pdfOutcome.state = "resolved"
       => /\ pdfOutcome.text = JoinWith(SelectSeq(PageTexts, LAMBDA t : t # <<>>), <<"\n", "\n">>)
          /\ pdfOutcome.text # <<>>
  /\ (pdfPc = "done" /\ pageRequests = OneToN(Len(pdfPages))
      /\ \A i \in DOMAIN pdfPages : pdfPages[i].kind = "return" /\ TextOfPage(pdfPages[i]) = <<>>)
       => pdfOutcome.state = "rejected"

C25_Witness ==
  /\ pdfPc = "done"
  /\ Len(pdfPages) = 3
  /\ pageRequests = <<1, 2, 3>>
  /\ pdfOutcome = ResolvedText(<<"a", " ", "a", "\n", "\n", "a">>)

(* ------------------------------ the App ------------------------------- *)
MaxConversions == 2
MaxUploads == 2

(* The documents FileUpload can hand over: file name and extracted text. *)
Documents ==
  { [filename |-> "a.txt", extractedText |-> <<"a">>],
    [filename |-> "b.txt", extractedText |-> <<"a", " ", "a">>] }

(* What the settings page can set of the provider and the key. *)
AppSettingsValues == [provider : {"local", "openai"}, apiKey : {<<>>, <<" ">>, <<"a">>}]

(* What convertToMarkdown can resolve with, as far as the App looks. *)
ConversionResults == {[success |-> TRUE], [success |-> FALSE]}

(* settings.provider === 'local' || settings.apiKey.trim().length > 0 *)
isConfigured(s) == s.provider = "local" \/ Len(Trim(s.apiKey)) > 0

(* the Convert button staying enabled during a conversion *)
canConvert_WhileConverting(doc, converting) == doc # Null

(* document && !isConverting *)
canConvert(doc, converting) == doc # Null /\ ~converting

(* FileUpload shows isProcessing: an extraction it started is pending *)
isProcessing == \E i \in DOMAIN uploading : uploading[i].mounted

RemoveAt(seq, i) == SubSeq(seq, 1, i - 1) \o SubSeq(seq, i + 1, Len(seq))

(* handleFiles up to its await: a file is chosen or dropped *)
UploadStart ==
  /\ ~showSettings
  /\ ~isProcessing
  /\ Len(uploading) < MaxUploads
  /\ uploading' = Append(uploading, [mounted |-> TRUE])
  /\ UNCHANGED <<document, conversionResult, resultSource, isConverting, showSettings,
                 appSettings, inFlight, convertCalls>>
  /\ UNCHANGED <<coreVars, pdfVars, mgrVars>>

(* extractText settles: handleFileProcessed on success, setError on      *)
(* failure                                                               *)
UploadSettles ==
  /\ \E i \in DOMAIN uploading :
       /\ uploading' = RemoveAt(uploading, i)
       /\ \/ \E doc \in Documents :
               /\ document' = doc
               /\ conversionResult' = Null
               /\ resultSource' = Null
          \/ UNCHANGED <<document, conversionResult, resultSource>>
  /\ UNCHANGED <<isConverting, showSettings, appSettings, inFlight, convertCalls>>
  /\ UNCHANGED <<coreVars, pdfVars, mgrVars>>

(* a click on the Convert button: handleConvert up to its await *)
ConvertClick ==
  /\ ~showSettings
  /\ canConvert(document, isConverting)
  /\ IF document = Null \/ ~isConfigured(appSettings)
       THEN /\ showSettings' = (IF ~isConfigured(appSettings) THEN TRUE ELSE showSettings)
            /\ uploading' = (IF ~isConfigured(appSettings)
                               THEN [i \in DOMAIN uploading |-> [mounted |-> FALSE]]
                               ELSE uploading)
            /\ UNCHANGED <<conversionResult, resultSource, isConverting, inFlight, convertCalls>>
       ELSE /\ convertCalls < MaxConversions
            /\ isConverting' = TRUE
            /\ conversionResult' = Null
            /\ resultSource' = Null
            /\ inFlight' = Append(inFlight, document)
            /\ convertCalls' = convertCalls + 1
            /\ UNCHANGED <<showSettings, uploading>>
  /\ UNCHANGED <<document, appSettings>>
  /\ UNCHANGED <<coreVars, pdfVars, mgrVars>>

(* convertToMarkdown settles: the rest of handleConvert *)
ConvertSettles ==
  /\ \E i \in DOMAIN inFlight, result \in ConversionResults :
       /\ conversionResult' = result
       /\ resultSource' = inFlight[i]
       /\ inFlight' = RemoveAt(inFlight, i)
  /\ isConverting' = FALSE
  /\ UNCHANGED <<document, showSettings, appSettings, uploading, convertCalls>>
  /\ UNCHANGED <<coreVars, pdfVars, mgrVars>>

(* a click on Settings or on Open Settings: the main page is unmounted *)
OpenSettings ==
  /\ ~showSettings
  /\ showSettings' = TRUE
  /\ uploading' = [i \in DOMAIN uploading |-> [mounted |-> FALSE]]
  /\ UNCHANGED <<document, conversionResult, resultSource, isConverting, appSettings,
                 inFlight, convertCalls>>
  /\ UNCHANGED <<coreVars, pdfVars, mgrVars>>

(* onSettingsChange of the settings page *)
ChangeSettings ==
  /\ showSettings
  /\ \E s \in AppSettingsValues : appSettings' = s
  /\ UNCHANGED <<document, conversionResult, resultSource, isConverting, showSettings,
                 inFlight, uploading, convertCalls>>
  /\ UNCHANGED <<coreVars, pdfVars, mgrVars>>

(* onBack of the settings page *)
CloseSettings ==
  /\ showSettings
  /\ showSettings' = FALSE
  /\ UNCHANGED <<document, conversionResult, resultSource, isConverting, appSettings,
                 inFlight, uploading, convertCalls>>
  /\ UNCHANGED <<coreVars, pdfVars, mgrVars>>

AppNext ==
  \/ UploadStart
  \/ UploadSettles
  \/ ConvertClick
  \/ ConvertSettles
  \/ OpenSettings
  \/ ChangeSettings
  \/ CloseSettings

AppSpec == Init /\ [][AppNext]_vars

(* C21: while the default settings are in effect the App is not          *)
(* configured ('Setup Required' is shown) and no convertToMarkdown call  *)
(* is issued: Convert opens the settings page instead.                   *)
C21_DefaultsNotConfigured ==
  appSettings = DEFAULT_SETTINGS
    => /\ ~isConfigured(appSettings)
       /\ inFlight = <<>>

(* C27: at most one conversion is in flight, and isConverting is true    *)
(* exactly while one is: no user event starts a second call during a     *)
(* conversion, and the flag is false again once the call has settled.    *)
C27_OneConversionInFlight ==
  /\ Len(inFlight) <= 1
  /\ isConverting <=> Len(inFlight) = 1

C27_Witness ==
  /\ isConverting
  /\ Len(inFlight) = 1
  /\ convertCalls = 2
  /\ uploading # <<>>

(* C28: a conversionResult the App holds was produced from the document  *)
(* the App holds.                                                        *)
C28_ResultOfCurrentDocument ==
  conversionResult # Null => (document # Null /\ resultSource = document)

(* ------------------------- the examples manager ----------------------- *)
MaxManaged == 2
MaxClock == 1

(* What the form of the manager can hold when Save is pressed. *)
ExampleForms ==
  [name : {"", "n"}, originalText : {"", "o"}, convertedMarkdown : {"m"},
   pleadingType : {"", "claim"}]

Range(seq) == {seq[i] : i \in DOMAIN seq}

RECURSIVE Filter(_, _)
Filter(seq, drop) ==
  IF seq = <<>> THEN <<>>
  ELSE IF Head(seq) \in drop THEN Filter(Tail(seq), drop)
  ELSE <<Head(seq)>> \o Filter(Tail(seq), drop)

(* handleAddExample: the new examples list *)
handleAddExample(list, newExample, clock) ==
  IF newExample.name = "" \/ newExample.originalText = "" \/ newExample.convertedMarkdown = ""
    THEN list
    ELSE Append(list,
                [id |-> ToString(clock), name |-> newExample.name,
                 originalText |-> newExample.originalText,
                 convertedMarkdown |-> newExample.convertedMarkdown,
                 pleadingType |-> IF newExample.pleadingType # "" THEN newExample.pleadingType
                                  ELSE "General"])

(* the delete handler leaving the selection alone *)
handleDeleteExample_KeepSelection(list, selected, id) ==
  [examples |-> Filter(list, {ex \in Range(list) : ex.id = id}),
   selected |-> selected]

(* handleDeleteExample: the new examples list and selection *)
handleDeleteExample(list, selected, id) ==
  [examples |-> Filter(list, {ex \in Range(list) : ex.id = id}),
   selected |-> Filter(selected, {id})]

(* handleSelectionChange: the new selection *)
handleSelectionChange(selected, id, checked) ==
  IF checked THEN Append(selected, id) ELSE Filter(selected, {id})

(* Save of the add form *)
AddExample ==
  /\ Len(mgrExamples) < MaxManaged
  /\ \E form \in ExampleForms :
       /\ mgrExamples' = handleAddExample(mgrExamples, form, now)
       /\ lastEvent' = [kind |-> "add"]
  /\ UNCHANGED <<selectedExamples, mgrUseExamples, now>>
  /\ UNCHANGED <<coreVars, pdfVars, appVars>>

(* the checkbox of a listed example changes: it is enabled with          *)
(* useExamples and shows whether the identifier is selected              *)
ToggleExample ==
  /\ mgrUseExamples
  /\ \E i \in DOMAIN mgrExamples :
       LET id == mgrExamples[i].id
           checked == id \notin Range(selectedExamples)
       IN  /\ selectedExamples' = handleSelectionChange(selectedExamples, id, checked)
           /\ lastEvent' = [kind |-> IF checked THEN "select" ELSE "deselect", id |-> id]
  /\ UNCHANGED <<mgrExamples, mgrUseExamples, now>>
  /\ UNCHANGED <<coreVars, pdfVars, appVars>>

(* the delete button of a listed example *)
DeleteExample ==
  /\ \E i \in DOMAIN mgrExamples :
       LET id == mgrExamples[i].id
           next == handleDeleteExample(mgrExamples, selectedExamples, id)
       IN  /\ mgrExamples' = next.examples
           /\ selectedExamples' = next.selected
           /\ lastEvent' = [kind |-> "delete", id |-> id]
  /\ UNCHANGED <<mgrUseExamples, now>>
  /\ UNCHANGED <<coreVars, pdfVars, appVars>>

(* the 'Use list' checkbox *)
ToggleUseExamples ==
  /\ mgrUseExamples' = ~mgrUseExamples
  /\ lastEvent' = [kind |-> "use"]
  /\ UNCHANGED <<mgrExamples, selectedExamples, now>>
  /\ UNCHANGED <<coreVars, pdfVars, appVars>>

(* a millisecond passes *)
Tick ==
  /\ now < MaxClock
  /\ now' = now + 1
  /\ UNCHANGED <<mgrExamples, selectedExamples, mgrUseExamples, lastEvent>>
  /\ UNCHANGED <<coreVars, pdfVars, appVars>>

MgrNext ==
  \/ AddExample
  \/ ToggleExample
  \/ DeleteExample
  \/ ToggleUseExamples
  \/ Tick

MgrSpec == Init /\ [][MgrNext]_vars

ListedIds == {mgrExamples[i].id : i \in DOMAIN mgrExamples}

(* C29: after any sequence of add, select, deselect and delete from      *)
(* empty lists, selectedExamples has no duplicate and holds only         *)
(* identifiers of listed examples; right after a delete, the example   *)
(* is not in the list and its identifier not in the selection.           *)
C29_SelectionWithinList ==
  /\ \A i, j \in DOMAIN selectedExamples :
       selectedExamples[i] = selectedExamples[j] => i = j
  /\ Range(selectedExamples) \subseteq ListedIds
  /\ lastEvent.kind = "delete"
       => /\ lastEvent.id \notin ListedIds
          /\ lastEvent.id \notin Range(selectedExamples)

C29_Witness ==
  /\ lastEvent = [kind |-> "delete", id |-> "0"]
  /\ Len(mgrExamples) = 1
  /\ selectedExamples = <<"1">>

====
